---- MODULE Spec2Model ----
\* Model of src/app.py: a Streamlit script that indexes YouTube transcripts and
\* answers questions about them.  The session state (historico_chat,
\* base_vetores) survives between script runs; every other variable is a local
\* of one run of main() and is cleared when the run ends.
\*
\* Text is modelled as a sequence of tokens (strings).  Links and the text area
\* are sequences of one-character tokens, so that split() and splitlines() are
\* computed as Python computes them.
EXTENDS Integers, Sequences, FiniteSets, TLC

VARIABLES
    historico_chat,         \* st.session_state.historico_chat: sequence of messages
    base_vetores,           \* st.session_state.base_vetores: None or a FAISS index
    pc,                     \* position of the current script run ("idle": no run)
    acao,                   \* which widget triggered the current run
    links_videos,           \* text of the text area in the current run
    respostas_api,          \* outcome of the transcript service for each link of this run
    pedidos,                \* video ids requested from the transcript service in this run
    avisos,                 \* st.warning calls of this run (the link each one names)
    texto_completo,         \* local texto_completo (line 117)
    pergunta,                \* local pergunta (line 125)
    documentos_relevantes,  \* local documentos_relevantes (line 129)
    prompt,                 \* local prompt (line 132)
    mensagens_enviadas,     \* the message list handed to chat.invoke (line 139)
    resposta,               \* local resposta.content (line 139)
    chamadas,               \* external calls made so far in this run
    antes,                  \* historico_chat as it stood when this run started
    base_antes              \* base_vetores as it stood when this run started

vars == <<historico_chat, base_vetores, pc, acao, links_videos, respostas_api,
          pedidos, avisos, texto_completo, pergunta, documentos_relevantes,
          prompt, mensagens_enviadas, resposta, chamadas, antes, base_antes>>

sessao == <<historico_chat, base_vetores>>
locais_processar == <<links_videos, respostas_api, pedidos, avisos, texto_completo>>
locais_pergunta == <<pergunta, documentos_relevantes, prompt, mensagens_enviadas, resposta>>

-----------------------------------------------------------------------------
\* Bounds of the model.

\* Longest list of lines pasted into the text area.
MaxLinks == 3
\* Longest conversation history a run may start from.
MaxHist == 5

-----------------------------------------------------------------------------
\* Python helpers, computed token by token.

Last(s) == s[Len(s)]

\* Index of the first occurrence of sep in s at or after position i, 0 if none.
RECURSIVE find(_, _, _)
find(s, sep, i) ==
    IF i + Len(sep) - 1 > Len(s) THEN 0
    ELSE IF SubSeq(s, i, i + Len(sep) - 1) = sep THEN i
    ELSE find(s, sep, i + 1)

\* str.split(sep): the parts between the non-overlapping occurrences of sep.
RECURSIVE split(_, _)
split(s, sep) ==
    LET i == find(s, sep, 1) IN
    IF i = 0 THEN <<s>>
    ELSE <<SubSeq(s, 1, i - 1)>> \o split(SubSeq(s, i + Len(sep), Len(s)), sep)

\* str.splitlines(): the lines of a text; a final line break opens no empty line.
splitlines(texto) ==
    LET partes == split(texto, <<"\n">>) IN
    IF Last(partes) = <<>> THEN SubSeq(partes, 1, Len(partes) - 1) ELSE partes

\* sep.join(partes), for parts that are token sequences.
RECURSIVE join(_, _)
join(sep, partes) ==
    IF partes = <<>> THEN <<>>
    ELSE IF Len(partes) = 1 THEN partes[1]
    ELSE partes[1] \o sep \o join(sep, Tail(partes))

-----------------------------------------------------------------------------
\* The inputs: links, the transcript service, questions and model answers.

LinkA == <<"v", "=", "A", "&", "t">>
LinkB == <<"v", "=", "B">>
LinkX == <<"x">>
LinkVazio == <<>>
Links == {LinkA, LinkB, LinkX, LinkVazio}

\* The transcripts the service holds, by video id; each fragment text is one token.
Transcricoes == (<<"A">> :> <<"a1", "a2">>) @@ (<<"B">> :> <<"b1">>)

\* len() of a fragment text.
len(palavra) ==
    CASE palavra = "a1" -> 300
      [] palavra = "a2" -> 150
      [] palavra = "b1" -> 150
      [] palavra = " " -> 1
      [] OTHER -> 0

\* Every text area of at most MaxLinks lines, each line one of Links.
ListasDeLinks == UNION {[1..n -> Links] : n \in 0..MaxLinks}
TextosArea == {join(<<"\n">>, ls) : ls \in ListasDeLinks}

\* The text areas a session is run with: empty, one video, an invalid link
\* before a video, two videos, and the same video twice.
TextosSessao ==
    {join(<<"\n">>, ls) : ls \in {<<>>, <<LinkA>>, <<LinkX, LinkB>>, <<LinkA, LinkB>>, <<LinkA, LinkA>>}}

\* chat_input returns None when nothing was submitted.
SemPergunta == "<None>"
Perguntas == {"q1", "q2"}
Entradas == Perguntas \cup {"", SemPergunta}
Respostas == {"r1"}

\* st.session_state.base_vetores = None
None == [tipo |-> "None"]

AIMessage(conteudo) == [tipo |-> "ai", content |-> conteudo]
HumanMessage(conteudo) == [tipo |-> "human", content |-> conteudo]
Saudacao == AIMessage(<<"Ola, sou um bot. Como posso ajudar?">>)

-----------------------------------------------------------------------------
\* obter_transcricao_youtube (lines 22-38).

\* What YouTubeTranscriptApi.get_transcript may do for each link of a list: fail
\* (invalid id, no transcript, network error), or return the video's fragments.
FalhaApi == [ok |-> FALSE, trechos |-> <<>>]
RespostasDoLink(link, video_id) ==
    {FalhaApi} \cup
    (IF video_id \in DOMAIN Transcricoes
        THEN {[ok |-> TRUE, trechos |-> Transcricoes[video_id]]}
        ELSE {})

\* Line 29: link.split('v=')[-1].split('&')[0]
extrair_video_id(link) == split(Last(split(link, <<"v", "=">>)), <<"&">>)[1]

RespostasPossiveis(links) ==
    {api \in [1..Len(links) -> {FalhaApi} \cup {[ok |-> TRUE, trechos |-> Transcricoes[v]] : v \in DOMAIN Transcricoes}] :
        \A i \in 1..Len(links) : api[i] \in RespostasDoLink(links[i], extrair_video_id(links[i]))}

\* Lines 32-34: documento += trecho['text'] + ' ' for every fragment.
RECURSIVE concatenar_trechos(_, _)
concatenar_trechos(documento, transcricao) ==
    IF transcricao = <<>> THEN documento
    ELSE concatenar_trechos(documento \o <<Head(transcricao), " ">>, Tail(transcricao))

\* Variant: the loop ends at the first link that fails.
RECURSIVE percorrer_links_para_na_falha(_, _, _, _)
percorrer_links_para_na_falha(links, api, i, est) ==
    IF i > Len(links) THEN est
    ELSE
        LET pedido == [est EXCEPT !.pedidos = Append(@, extrair_video_id(links[i]))] IN
        IF api[i].ok
        THEN percorrer_links_para_na_falha(links, api, i + 1,
                [pedido EXCEPT !.documento = concatenar_trechos(@, api[i].trechos)])
        ELSE [pedido EXCEPT !.avisos = Append(@, links[i])]

\* One pass of the for loop of line 26 over links[i..], from the state est.
RECURSIVE percorrer_links(_, _, _, _)
percorrer_links(links, api, i, est) ==
    IF i > Len(links) THEN est
    ELSE
        LET link == links[i]
            video_id == extrair_video_id(link)
            pedido == [est EXCEPT !.pedidos = Append(@, video_id)]
        IN  IF api[i].ok
            THEN percorrer_links(links, api, i + 1,
                    [pedido EXCEPT !.documento = concatenar_trechos(@, api[i].trechos)])
            ELSE percorrer_links(links, api, i + 1,
                    [pedido EXCEPT !.avisos = Append(@, link)])

\* The function's result: the document returned, the warnings shown and the
\* requests made, given the service's outcome for each link.
obter_transcricao_youtube(links, api) ==
    percorrer_links(links, api, 1, [documento |-> <<>>, avisos |-> <<>>, pedidos |-> <<>>])

-----------------------------------------------------------------------------
\* obter_base_vetores_dos_textos (lines 40-63).

chunk_size == 500
chunk_overlap == 200
separator == <<" ">>

RECURSIVE comprimento(_)
comprimento(texto) == IF texto = <<>> THEN 0 ELSE len(Head(texto)) + comprimento(Tail(texto))

\* The splitter joins the words of a chunk with the separator and strips it;
\* a chunk that is empty is dropped.
juntar_pedaco(docs, atual) ==
    IF join(separator, atual) = <<>> THEN docs ELSE Append(docs, join(separator, atual))

\* Drop words from the front of the current chunk until the overlap fits.
RECURSIVE recuar(_, _, _)
recuar(atual, total, tam) ==
    IF total > chunk_overlap
       \/ (total + tam + (IF Len(atual) > 0 THEN Len(separator) ELSE 0) > chunk_size /\ total > 0)
    THEN recuar(Tail(atual),
                total - (comprimento(Head(atual)) + (IF Len(atual) > 1 THEN Len(separator) ELSE 0)),
                tam)
    ELSE [atual |-> atual, total |-> total]

RECURSIVE juntar_palavras(_, _, _, _)
juntar_palavras(palavras, docs, atual, total) ==
    IF palavras = <<>> THEN juntar_pedaco(docs, atual)
    ELSE
        LET d == Head(palavras)
            tam == comprimento(d)
            cheio == total + tam + (IF Len(atual) > 0 THEN Len(separator) ELSE 0) > chunk_size
            docs2 == IF cheio /\ Len(atual) > 0 THEN juntar_pedaco(docs, atual) ELSE docs
            r == IF cheio /\ Len(atual) > 0 THEN recuar(atual, total, tam)
                 ELSE [atual |-> atual, total |-> total]
            atual2 == Append(r.atual, d)
        IN  juntar_palavras(Tail(palavras), docs2, atual2,
                            r.total + tam + (IF Len(atual2) > 1 THEN Len(separator) ELSE 0))

\* Line 52: CharacterTextSplitter(separator=' ', chunk_size=500,
\* chunk_overlap=200).split_text(texto)
split_text(texto) ==
    juntar_palavras(SelectSeq(split(texto, separator), LAMBDA p : p # <<>>), <<>>, <<>>, 0)

\* Line 62: FAISS.from_texts(pedacos_documento, modelo_embeddings)
from_texts(pedacos) == [tipo |-> "FAISS", textos |-> pedacos]

obter_base_vetores_dos_textos(texto) == from_texts(split_text(texto))

\* Line 129: base.similarity_search(pergunta, k=3).  The ranking is the
\* embedding model's: any k distinct chunks of the index (all of them when the
\* index holds fewer), in any order.
k == 3
Min(a, b) == IF a < b THEN a ELSE b
similarity_search(base, consulta, n) ==
    LET m == Min(n, Len(base.textos)) IN
    {[i \in 1..m |-> base.textos[f[i]]] :
        f \in {g \in [1..m -> 1..Len(base.textos)] :
                \A a, b \in 1..m : a # b => g[a] # g[b]}}

-----------------------------------------------------------------------------
\* montar_prompt (lines 65-87).

TemplateInicio == "Use os trechos fornecidos ... ### Trechos:"
TemplatePergunta == "### Pergunta:"
TemplateFim == "<fim do template>"

\* Line 82: f'{indice}. {fragmento.page_content}\n' for each fragment, from 1
linhas_contexto(fragmentos) ==
    [i \in 1..Len(fragmentos) |-> <<ToString(i), ". ">> \o fragmentos[i] \o <<"\n">>]

montar_prompt(fragmentos, p) ==
    <<TemplateInicio>> \o join(<<"\n">>, linhas_contexto(fragmentos))
        \o <<TemplatePergunta, p, TemplateFim>>

-----------------------------------------------------------------------------
\* main (lines 89-153): one script run per widget interaction.

\* Variant: a new session starts with an empty index instead of None.
Init_ComBaseVazia ==
    /\ historico_chat = <<>>
    /\ base_vetores = from_texts(<<>>)
    /\ pc = "idle"
    /\ acao = "nenhuma"
    /\ links_videos = <<>>
    /\ respostas_api = <<>>
    /\ pedidos = <<>>
    /\ avisos = <<>>
    /\ texto_completo = <<>>
    /\ pergunta = SemPergunta
    /\ documentos_relevantes = <<>>
    /\ prompt = <<>>
    /\ mensagens_enviadas = <<>>
    /\ resposta = <<>>
    /\ chamadas = <<>>
    /\ antes = <<>>
    /\ base_antes = from_texts(<<>>)

\* Lines 92-96: the session state of a new session; no run is in progress.
Init ==
    /\ historico_chat = <<>>
    /\ base_vetores = None
    /\ pc = "idle"
    /\ acao = "nenhuma"
    /\ links_videos = <<>>
    /\ respostas_api = <<>>
    /\ pedidos = <<>>
    /\ avisos = <<>>
    /\ texto_completo = <<>>
    /\ pergunta = SemPergunta
    /\ documentos_relevantes = <<>>
    /\ prompt = <<>>
    /\ mensagens_enviadas = <<>>
    /\ resposta = <<>>
    /\ chamadas = <<>>
    /\ antes = <<>>
    /\ base_antes = None

\* A run starts: remember the session state it found.
Iniciar(nome) ==
    /\ pc = "idle"
    /\ acao' = nome
    /\ antes' = historico_chat
    /\ base_antes' = base_vetores

\* The run is over: its locals are gone, the session state stays.
Terminar ==
    /\ pc' = "idle"
    /\ acao' = "nenhuma"
    /\ links_videos' = <<>>
    /\ respostas_api' = <<>>
    /\ pedidos' = <<>>
    /\ avisos' = <<>>
    /\ texto_completo' = <<>>
    /\ pergunta' = SemPergunta
    /\ documentos_relevantes' = <<>>
    /\ prompt' = <<>>
    /\ mensagens_enviadas' = <<>>
    /\ resposta' = <<>>
    /\ chamadas' = <<>>
    /\ antes' = <<>>
    /\ base_antes' = None
    /\ UNCHANGED sessao

\* Lines 111-115: the button was pressed; the greeting is appended.
Processar_Saudacao ==
    /\ Iniciar("processar")
    /\ Len(historico_chat) < MaxHist
    /\ \E texto \in TextosSessao : links_videos' = texto
    /\ historico_chat' = Append(historico_chat, Saudacao)
    /\ pc' = "transcricao"
    /\ UNCHANGED <<base_vetores, respostas_api, pedidos, avisos, texto_completo,
                   locais_pergunta, chamadas>>

\* Line 117: texto_completo = obter_transcricao_youtube(links_videos.splitlines())
Processar_Transcricao ==
    /\ pc = "transcricao"
    /\ \E api \in RespostasPossiveis(splitlines(links_videos)) :
        LET r == obter_transcricao_youtube(splitlines(links_videos), api) IN
        /\ respostas_api' = api
        /\ texto_completo' = r.documento
        /\ avisos' = r.avisos
        /\ pedidos' = r.pedidos
    /\ pc' = "base"
    /\ UNCHANGED <<sessao, acao, links_videos, locais_pergunta, chamadas, antes, base_antes>>

\* Variant: the new chunks are added to the index the session already holds.
Processar_Base_Acumula ==
    /\ pc = "base"
    /\ split_text(texto_completo) # <<>>
    /\ base_vetores' =
            IF base_vetores = None THEN obter_base_vetores_dos_textos(texto_completo)
            ELSE from_texts(base_vetores.textos \o split_text(texto_completo))
    /\ chamadas' = Append(chamadas, "from_texts")
    /\ pc' = "exibir"
    /\ UNCHANGED <<historico_chat, acao, locais_processar, locais_pergunta, antes, base_antes>>

\* Lines 119-127: the index is built and stored; chat_input then returns None.
\* FAISS.from_texts sizes the index from the first embedding, so it returns
\* only when the splitter produced at least one chunk.
Processar_Base_Ok ==
    /\ pc = "base"
    /\ split_text(texto_completo) # <<>>
    /\ base_vetores' = obter_base_vetores_dos_textos(texto_completo)
    /\ chamadas' = Append(chamadas, "from_texts")
    /\ pc' = "exibir"
    /\ UNCHANGED <<historico_chat, acao, locais_processar, locais_pergunta, antes, base_antes>>

\* Line 119: building the index raises (no chunk to index, or the embedding
\* model fails); the exception is not caught and the run stops.
Processar_Base_Erro ==
    /\ pc = "base"
    /\ chamadas' = Append(chamadas, "from_texts")
    /\ pc' = "erro"
    /\ UNCHANGED <<sessao, acao, locais_processar, locais_pergunta, antes, base_antes>>

\* Line 123: the chat is shown only once an index exists.
chat_habilitado(base) == base # None

\* Variant: only None is rejected.
pergunta_valida_so_none(p) == p # SemPergunta

\* Line 127: pergunta is not None and pergunta != ''
pergunta_valida(p) == p # SemPergunta /\ p # ""

\* Lines 95-96, 123: a run without the button while no index exists ends at once.
Rerun_SemBase ==
    /\ Iniciar("rerun")
    /\ ~chat_habilitado(base_vetores)
    /\ pc' = "fim"
    /\ UNCHANGED <<sessao, locais_processar, locais_pergunta, chamadas>>

\* Lines 123-127: nothing, or the empty string, was submitted.
Pergunta_Vazia ==
    /\ Iniciar("pergunta")
    /\ chat_habilitado(base_vetores)
    /\ \E p \in Entradas :
        /\ ~pergunta_valida(p)
        /\ pergunta' = p
    /\ pc' = "exibir"
    /\ UNCHANGED <<sessao, locais_processar, documentos_relevantes, prompt,
                   mensagens_enviadas, resposta, chamadas>>

\* Lines 123-135: a question was submitted; the chunks are retrieved, the prompt
\* is assembled and appended to the history.
Pergunta_Prompt ==
    /\ Iniciar("pergunta")
    /\ chat_habilitado(base_vetores)
    /\ Len(historico_chat) + 2 <= MaxHist
    /\ \E p \in Entradas :
        /\ pergunta_valida(p)
        /\ \E docs \in similarity_search(base_vetores, p, k) :
            /\ pergunta' = p
            /\ documentos_relevantes' = docs
            /\ prompt' = montar_prompt(docs, p)
            /\ historico_chat' = Append(historico_chat, HumanMessage(montar_prompt(docs, p)))
    /\ chamadas' = Append(chamadas, "similarity_search")
    /\ pc' = "invoke"
    /\ UNCHANGED <<base_vetores, locais_processar, mensagens_enviadas, resposta>>

\* Line 139: chat.invoke(historico_chat) returns the model's message.
Chat_Retorna ==
    /\ pc = "invoke"
    /\ mensagens_enviadas' = historico_chat
    /\ \E r \in Respostas : resposta' = <<r>>
    /\ chamadas' = Append(chamadas, "invoke")
    /\ pc' = "pop"
    /\ UNCHANGED <<sessao, acao, locais_processar, pergunta, documentos_relevantes,
                   prompt, antes, base_antes>>

\* Line 139: chat.invoke raises (auth, rate limit, network); the exception is
\* not caught and the run stops.
Chat_Falha ==
    /\ pc = "invoke"
    /\ mensagens_enviadas' = historico_chat
    /\ chamadas' = Append(chamadas, "invoke")
    /\ pc' = "erro"
    /\ UNCHANGED <<sessao, acao, locais_processar, pergunta, documentos_relevantes,
                   prompt, resposta, antes, base_antes>>

\* Variant: pop(0), the list without its first element.
pop_primeiro(lista) == Tail(lista)

\* list.pop(): the list without its last element.
pop(lista) == SubSeq(lista, 1, Len(lista) - 1)

\* Line 142: historico_chat.pop()
Remover_Prompt ==
    /\ pc = "pop"
    /\ historico_chat' = pop(historico_chat)
    /\ pc' = "append_pergunta"
    /\ UNCHANGED <<base_vetores, acao, locais_processar, locais_pergunta, chamadas,
                   antes, base_antes>>

\* Variant: the prompt is appended again in place of the raw question.
Adicionar_Prompt_De_Novo ==
    /\ pc = "append_pergunta"
    /\ historico_chat' = Append(historico_chat, HumanMessage(prompt))
    /\ pc' = "append_resposta"
    /\ UNCHANGED <<base_vetores, acao, locais_processar, locais_pergunta, chamadas,
                   antes, base_antes>>

\* Line 143: historico_chat.append(HumanMessage(content=pergunta))
Adicionar_Pergunta ==
    /\ pc = "append_pergunta"
    /\ historico_chat' = Append(historico_chat, HumanMessage(<<pergunta>>))
    /\ pc' = "append_resposta"
    /\ UNCHANGED <<base_vetores, acao, locais_processar, locais_pergunta, chamadas,
                   antes, base_antes>>

\* Line 144: historico_chat.append(AIMessage(content=resposta.content))
Adicionar_Resposta ==
    /\ pc = "append_resposta"
    /\ historico_chat' = Append(historico_chat, AIMessage(resposta))
    /\ pc' = "exibir"
    /\ UNCHANGED <<base_vetores, acao, locais_processar, locais_pergunta, chamadas,
                   antes, base_antes>>

\* Lines 146-153: the history is rendered and the run ends.
Exibir == pc = "exibir" /\ Terminar

\* An uncaught exception ended the run.
Abortar == pc = "erro" /\ Terminar

\* The run ended before the chat section (line 123 false).
Encerrar == pc = "fim" /\ Terminar

Next ==
    \/ Processar_Saudacao
    \/ Processar_Transcricao
    \/ Processar_Base_Ok
    \/ Processar_Base_Erro
    \/ Rerun_SemBase
    \/ Pergunta_Vazia
    \/ Pergunta_Prompt
    \/ Chat_Retorna
    \/ Chat_Falha
    \/ Remover_Prompt
    \/ Adicionar_Pergunta
    \/ Adicionar_Resposta
    \/ Exibir
    \/ Abortar
    \/ Encerrar

Spec == Init /\ [][Next]_vars

\* The transcript fetcher on its own: a fresh session in which the button was
\* just pressed (the state Processar_Saudacao leaves), for every text area of
\* at most MaxLinks lines.
InitTranscricao ==
    /\ historico_chat = <<Saudacao>>
    /\ base_vetores = None
    /\ pc = "transcricao"
    /\ acao = "processar"
    /\ links_videos \in TextosArea
    /\ respostas_api = <<>>
    /\ pedidos = <<>>
    /\ avisos = <<>>
    /\ texto_completo = <<>>
    /\ pergunta = SemPergunta
    /\ documentos_relevantes = <<>>
    /\ prompt = <<>>
    /\ mensagens_enviadas = <<>>
    /\ resposta = <<>>
    /\ chamadas = <<>>
    /\ antes = <<>>
    /\ base_antes = None

NextTranscricao == Processar_Transcricao

SpecTranscricao == InitTranscricao /\ [][NextTranscricao]_vars

-----------------------------------------------------------------------------
\* Properties.

\* A message body produced by montar_prompt.
EhPrompt(conteudo) == conteudo # <<>> /\ conteudo[1] = TemplateInicio

\* The run has ended (normally or by an uncaught exception), or none is in progress.
AcaoEncerrada == pc \in {"idle", "exibir", "erro", "fim"}

CicloEmCurso == pc \in {"invoke", "pop", "append_pergunta", "append_resposta"}

\* C1: after every Process Videos action the history is exactly the greeting.
C1_AposProcessarSoSaudacao ==
    (acao = "processar" /\ pc \in {"exibir", "erro"}) => historico_chat = <<Saudacao>>

\* C2: a question-answer cycle whose chat call returned leaves the earlier
\* messages as they were and appends the raw question (user) and the model's
\* answer (assistant), in that order, and nothing else.
C2_CicloAcrescentaPerguntaEResposta ==
    (acao = "pergunta" /\ pc = "exibir" /\ pergunta \notin {"", SemPergunta}) =>
        historico_chat = antes \o <<HumanMessage(<<pergunta>>), AIMessage(resposta)>>

\* A cycle completed on a history that already held an earlier cycle.
C2_Witness ==
    /\ acao = "pergunta" /\ pc = "exibir" /\ pergunta \in Perguntas
    /\ Len(antes) >= 3
    /\ base_vetores # None

\* C3: whenever an action has ended, completed or halted, no message of the
\* history is an assembled prompt.
C3_PromptNuncaPersistido ==
    AcaoEncerrada => \A i \in 1..Len(historico_chat) : ~EhPrompt(historico_chat[i].content)

\* C4: a run in which nothing or the empty string was submitted changes neither
\* the history nor the index, calls neither the index nor the chat API, and
\* raises nothing: it goes straight to rendering.
C4_PerguntaVaziaSemEfeito ==
    (acao = "pergunta" /\ pergunta \in {"", SemPergunta}) =>
        /\ pc = "exibir"
        /\ historico_chat = antes
        /\ base_vetores = base_antes
        /\ chamadas = <<>>

\* The empty string was submitted in a session that has an index and a history.
C4_Witness ==
    /\ acao = "pergunta" /\ pergunta = "" /\ pc = "exibir"
    /\ base_vetores # None
    /\ Len(historico_chat) >= 3

\* C5: a similarity query, a chat call or an append of a user message happens
\* only in a run that found an index in the session, and every user message of
\* the history comes after a greeting.
C5_ChatSoComBase ==
    /\ (CicloEmCurso \/ (chamadas # <<>> /\ chamadas[1] \in {"similarity_search", "invoke"})) =>
            base_antes # None /\ base_vetores # None
    /\ \A i \in 1..Len(historico_chat) :
            historico_chat[i].tipo = "human" =>
                \E j \in 1..(i - 1) : historico_chat[j] = Saudacao

\* A question is being answered; the history it extends starts with a greeting.
C5_Witness ==
    /\ pc = "invoke" /\ chamadas = <<"similarity_search">>
    /\ historico_chat[Len(historico_chat)].tipo = "human"
    /\ historico_chat[1] = Saudacao

\* C6: whenever an action has ended, no two consecutive messages of the history
\* carry the same role.
C6_PapeisAlternados ==
    AcaoEncerrada =>
        \A i \in 1..(Len(historico_chat) - 1) :
            historico_chat[i].tipo # historico_chat[i + 1].tipo

\* C7 as stated: after every Process Videos action, completed or halted, the
\* session's index is the one built from that action's links.
C7_TodaAcaoReconstroi ==
    (acao = "processar" /\ pc \in {"exibir", "erro"}) =>
        base_vetores = from_texts(split_text(texto_completo))

\* C7 amended: a Process Videos action that completes stores the index built from
\* its own links only; one halted by the index build leaves the session's index
\* as it found it; no other run changes the index; and every question is
\* answered by a top-k query against the index the run found in the session.
C7_IndiceDaUltimaConclusao ==
    /\ (acao = "processar" /\ pc = "exibir") =>
            /\ base_vetores.tipo = "FAISS"
            /\ base_vetores.textos = split_text(texto_completo)
    /\ (acao = "processar" /\ pc \in {"transcricao", "base", "erro"}) =>
            base_vetores = base_antes
    /\ (acao \in {"pergunta", "rerun"}) => base_vetores = base_antes
    /\ CicloEmCurso =>
            /\ Len(documentos_relevantes) = Min(k, Len(base_antes.textos))
            /\ \A i \in 1..Len(documentos_relevantes) :
                \E j \in 1..Len(base_antes.textos) :
                    documentos_relevantes[i] = base_antes.textos[j]

\* A second Process Videos action completed and replaced a different index.
C7_Witness ==
    /\ acao = "processar" /\ pc = "exibir"
    /\ base_antes # None
    /\ base_antes.textos # <<>>
    /\ base_vetores.textos # <<>>
    /\ base_vetores # base_antes

\* The warnings expected for links[1..n]: the failing links, in order.
RECURSIVE avisos_esperados(_, _, _)
avisos_esperados(links, api, n) ==
    IF n = 0 THEN <<>>
    ELSE avisos_esperados(links, api, n - 1)
            \o (IF api[n].ok THEN <<>> ELSE <<links[n]>>)

\* The document expected for links[1..n]: every fragment text of the succeeding
\* links followed by a space, in link order.
RECURSIVE documento_esperado(_, _)
documento_esperado(api, n) ==
    IF n = 0 THEN <<>>
    ELSE documento_esperado(api, n - 1)
            \o (IF api[n].ok
                THEN [j \in 1..(2 * Len(api[n].trechos)) |->
                        IF j % 2 = 1 THEN api[n].trechos[(j + 1) \div 2] ELSE " "]
                ELSE <<>>)

\* C8: obter_transcricao_youtube returns for every list of links; it requests
\* every link in order, also after a failing one, warns once for each failing
\* link and for no other, and returns the fragment texts of exactly the
\* succeeding links in link order (the empty string when none succeeds).
C8_TranscricaoToleraFalhas ==
    pc = "base" =>
        LET links == splitlines(links_videos)
            n == Len(links)
        IN  /\ Len(respostas_api) = n
            /\ Len(pedidos) = n
            /\ \A i \in 1..n : pedidos[i] = extrair_video_id(links[i])
            /\ avisos = avisos_esperados(links, respostas_api, n)
            /\ Len(avisos) = Cardinality({i \in 1..n : ~respostas_api[i].ok})
            /\ texto_completo = documento_esperado(respostas_api, n)
            /\ (\A i \in 1..n : ~respostas_api[i].ok) => texto_completo = <<>>

\* A failing link was followed by a link whose transcript was fetched.
C8_Witness ==
    /\ pc = "base"
    /\ Len(respostas_api) >= 2
    /\ ~respostas_api[1].ok
    /\ respostas_api[2].ok
    /\ Len(avisos) = 1
    /\ texto_completo # <<>>

\* C9: every step leaves the history alone, appends one message to its end, or
\* removes its last message; a removal happens only after the chat call of the
\* current cycle returned and removes the prompt that cycle appended; no
\* greeting, raw question or answer is ever removed, moved or rewritten.
C9_Passo ==
    LET h == historico_chat
        g == historico_chat'
    IN  /\ \/ g = h
           \/ (Len(g) = Len(h) + 1 /\ SubSeq(g, 1, Len(h)) = h)
           \/ /\ Len(h) >= 1
              /\ g = SubSeq(h, 1, Len(h) - 1)
              /\ pc = "pop"
              /\ resposta # <<>>
              /\ chamadas = <<"similarity_search", "invoke">>
              /\ Len(h) = Len(antes) + 1
              /\ h[Len(h)] = HumanMessage(prompt)
              /\ EhPrompt(prompt)
        /\ \A i \in 1..Len(h) :
              ~EhPrompt(h[i].content) => i <= Len(g) /\ g[i] = h[i]

C10_MensagensEnviadas ==
    (acao = "pergunta" /\ pc \in {"pop", "erro"}) =>
        /\ mensagens_enviadas = antes \o <<HumanMessage(montar_prompt(documentos_relevantes, pergunta))>>
        /\ \A i \in 1..Len(antes) :
              mensagens_enviadas[i].tipo = "human" =>
                  /\ ~EhPrompt(mensagens_enviadas[i].content)
                  /\ \E q \in Perguntas : mensagens_enviadas[i].content = <<q>>
        /\ \A i \in (Len(antes) + 1)..Len(mensagens_enviadas) :
              mensagens_enviadas[i] # HumanMessage(<<pergunta>>)

====
